---- MODULE Spec2Model ----
(***************************************************************************)
(* Dental force monitor: the session store (services/data_storage.py), the *)
(* text record parser (services/csv_parser.py), the BLE notification       *)
(* handler (services/ble_service.py) and the MainWindow handlers that      *)
(* drive them (ui/main_window.py, ui/live_plot.py, ui/ble_panel.py); and   *)
(* the report pipeline: episode segmentation in generate_dashboard         *)
(* (services/dashboard_generator.py) and the clinical classifier           *)
(* BruxismReportGenerator (services/report_generator.py), both called by   *)
(* generate_bruxism_pdf_report (services/pdf_generator.py).                *)
(*                                                                         *)
(* Floats are fixed-point integers in hundredths (3.5 kg is 350, the event *)
(* flag 1.0 is 100); NaN is the one non-finite float the model carries.    *)
(* Wall-clock time is the variable now, in milliseconds.                   *)
(***************************************************************************)
EXTENDS Integers, Sequences, FiniteSets, TLC

VARIABLES
    current_session_data,   \* DataStorage.current_session_data: the live buffer
    current_session_id,     \* DataStorage.current_session_id (None at construction)
    session_active,         \* DataStorage.session_active
    sessions,               \* rows of the sessions table, in id order
    simulating,             \* LivePlot.simulating
    simulation_timer,       \* MainWindow.simulation_timer.isActive()
    inbox,                  \* BLEWorker.data_received emissions queued for the GUI thread
    now,                    \* wall clock, milliseconds
    raised,                 \* exception the last call let escape to its caller
    last,                   \* name of the last handler or method that ran
    was_active,             \* history: session_active when that call began
    raw_csv,                \* argument of the last CSVParser.parse call
    parsed,                 \* its return value
    received,               \* history: payloads the notification handler was given
    delivered,              \* history: records on_ble_data handed to add_record
    df,                     \* rows of the DataFrame a report is generated from
    dashboard,              \* generate_dashboard: the mode and the episodes it charted
    resegmented,            \* generate_dashboard over those episodes taken as records
    generator,              \* BruxismReportGenerator: its fields after __init__
    report_text,            \* generate_summary_report: the text it returned
    csv_file,               \* the file export_session_csv / export_current_csv wrote
    exported,               \* history: the records that export was given
    force_distribution      \* low_force_pct and high_force_pct as the floats they are

acquisitionVars ==
    <<current_session_data, current_session_id, session_active, sessions,
      simulating, simulation_timer, inbox, now, raised, last, was_active,
      raw_csv, parsed, received, delivered>>

reportVars == <<df, dashboard, resegmented, generator, report_text>>

exportVars == <<csv_file, exported>>

floatVars == <<force_distribution>>

vars == <<acquisitionVars, reportVars, exportVars, floatVars>>

(***************************************************************************)
(* Bounds of the model.                                                    *)
(***************************************************************************)
MaxRecords == 2      \* records held by the live buffer and the saved rows together
MaxSessions == 2     \* rows the sessions table may hold
MaxTicks == 1        \* clock ticks after the start
MaxFrames == 2       \* notifications the device sends
MaxFields == 5       \* comma-separated fields of an input line

(***************************************************************************)
(* Values.                                                                 *)
(***************************************************************************)
None == [none |-> TRUE]
NoneId == 0
NaN == 0 - 1
Raise(e) == [exc |-> e]
IsDict(r) == "none" \notin DOMAIN r /\ "exc" \notin DOMAIN r
StartMs == 1000 * 1000

ForceVals == {50, 350}
EventVals == {0, 100}
SensorIds == {1, 2}

\* datetime.utcfromtimestamp(ts).isoformat(), datetime.fromtimestamp(ts/1000).isoformat()
\* and datetime.utcnow().isoformat(): the text is kept as its origin and instant.
UtcOfSeconds(ts) == <<"utc-s", ts>>
LocalOfMillis(ts) == <<"local-ms", ts>>
UtcNow(t) == <<"utcnow", t>>
\* datetime raises past year 9999; the model's integers end before that
DatetimeMaxSeconds == 2147483647
InDatetimeRange(seconds) == seconds >= 0 /\ seconds <= DatetimeMaxSeconds

NowSeconds(t) == t \div 1000

(***************************************************************************)
(* DataStorage, as operators on the object's state                         *)
(*   st = [data, id, active, rows, raised].                                *)
(***************************************************************************)
Store ==
    [data |-> current_session_data, id |-> current_session_id,
     active |-> session_active, rows |-> sessions, raised |-> "none"]

SetStore(st) ==
    /\ current_session_data' = st.data
    /\ current_session_id' = st.id
    /\ session_active' = st.active
    /\ sessions' = st.rows
    /\ raised' = st.raised

start_new_session(st, t) ==
    [st EXCEPT !.data = <<>>, !.active = TRUE, !.id = NowSeconds(t)]

clear_current_session(st) ==
    [st EXCEPT !.data = <<>>]

add_force_value(st, force, sensor_id, event, t) ==
    LET s1 == IF ~st.active THEN start_new_session(st, t) ELSE st
        record == [sensorId |-> sensor_id, force |-> force,
                   timestamp |-> NowSeconds(t), date |-> UtcNow(t),
                   event |-> event]
    IN  [s1 EXCEPT !.data = Append(@, record)]

\* record.pop("value") into "force"
RenameValue(record) ==
    IF "force" \notin DOMAIN record /\ "value" \in DOMAIN record
    THEN [k \in (DOMAIN record \ {"value"}) \cup {"force"} |->
            IF k = "force" THEN record.value ELSE record[k]]
    ELSE record

WithDate(record, t) ==
    IF "date" \notin DOMAIN record /\ "timestamp" \in DOMAIN record
    THEN [k \in DOMAIN record \cup {"date"} |->
            IF k = "date"
            THEN IF InDatetimeRange(record.timestamp)
                 THEN UtcOfSeconds(record.timestamp)
                 ELSE UtcNow(t)
            ELSE record[k]]
    ELSE record

WithEvent(record) ==
    IF "event" \notin DOMAIN record
    THEN [k \in DOMAIN record \cup {"event"} |->
            IF k = "event" THEN 0 ELSE record[k]]
    ELSE record

add_record_noflag(st, record, t) ==
    IF ~IsDict(record) THEN st
    ELSE [st EXCEPT !.data = Append(@, WithEvent(WithDate(RenameValue(record), t)))]

add_record_front(st, record, t) ==
    IF ~IsDict(record) THEN st
    ELSE LET r == WithEvent(WithDate(RenameValue(record), t))
             s1 == [st EXCEPT !.data = <<r>> \o @]
         IN  IF ~s1.active
             THEN [s1 EXCEPT !.active = TRUE, !.id = NowSeconds(t)]
             ELSE s1

add_record(st, record, t) ==
    IF ~IsDict(record) THEN st
    ELSE LET r == WithEvent(WithDate(RenameValue(record), t))
             s1 == [st EXCEPT !.data = Append(@, r)]
         IN  IF ~s1.active
             THEN [s1 EXCEPT !.active = TRUE, !.id = NowSeconds(t)]
             ELSE s1

(***************************************************************************)
(* Text.  A line is the sequence of its comma-separated fields, so that    *)
(* s.split(',') is the line itself; the empty line is <<"">>.  A field is  *)
(* the text Python prints for a number, and int() and float() read a field *)
(* back by looking for the number that prints as it.                       *)
(***************************************************************************)
IntDomain == 0..3 \cup (StartMs..(StartMs + MaxTicks + 1))
FloatDomain == {NaN, 0, 50, 100, 350}

\* str(int)
IntText(n) == ToString(n)

\* repr(float): "3.5", "0.25", "1.0", "nan"
FloatText(x) ==
    IF x = NaN THEN "nan"
    ELSE LET whole == x \div 100
             frac == x % 100
         IN  ToString(whole) \o "." \o
             (IF frac % 10 = 0 THEN ToString(frac \div 10)
              ELSE IF frac < 10 THEN "0" \o ToString(frac)
              ELSE ToString(frac))

\* int(field): ValueError unless the field is an integer literal
IsIntText(field) == \E n \in IntDomain : IntText(n) = field
IntOf(field) == CHOOSE n \in IntDomain : IntText(n) = field

\* float(field): reads a float literal, "nan", and an integer literal as well
IsFloatLiteral(field) == \E x \in FloatDomain : FloatText(x) = field
IsFloatText(field) == IsFloatLiteral(field) \/ IsIntText(field)
FloatOf(field) ==
    IF IsFloatLiteral(field)
    THEN CHOOSE x \in FloatDomain : FloatText(x) = field
    ELSE 100 * IntOf(field)

(***************************************************************************)
(* json.dumps and json.loads of the records of a session.  A record is     *)
(* written field by field: a str as a JSON string, a float by its repr     *)
(* (NaN as the bare word NaN), an int by its digits; strs names the keys   *)
(* whose values are str.                                                   *)
(***************************************************************************)
JsonIntDomain ==
    IntDomain \cup 0..20 \cup {NowSeconds(t) : t \in StartMs..(StartMs + MaxTicks + 1)}

JsonString(s) == <<"json-str", s>>
JsonStringOf(text) == text[2]

JsonFloat(x) == IF x = NaN THEN "NaN" ELSE FloatText(x)
JsonFloatOf(text) ==
    IF text = "NaN" THEN NaN
    ELSE CHOOSE x \in FloatDomain \ {NaN} : FloatText(x) = text

JsonIntOf(text) == CHOOSE n \in JsonIntDomain : IntText(n) = text

FloatKeys == {"force", "value", "event"}

json_dumps_record(r, strs) ==
    [k \in DOMAIN r |->
        IF k \in strs THEN JsonString(r[k])
        ELSE IF k \in FloatKeys THEN JsonFloat(r[k])
        ELSE IntText(r[k])]

json_loads_record(j, strs) ==
    [k \in DOMAIN j |->
        IF k \in strs THEN JsonStringOf(j[k])
        ELSE IF k \in FloatKeys THEN JsonFloatOf(j[k])
        ELSE JsonIntOf(j[k])]

json_dumps(data, strs) == [i \in 1..Len(data) |-> json_dumps_record(data[i], strs)]
json_loads(text, strs) == [i \in 1..Len(text) |-> json_loads_record(text[i], strs)]

\* the data_json column as json.loads reads it back
DataJson(data, strs) == json_loads(json_dumps(data, strs), strs)

(***************************************************************************)
(* The summary save_session computes: Python's sum, max, min and round     *)
(* over the forces, with NaN never greater or smaller than anything.       *)
(***************************************************************************)
RECURSIVE SumForces(_)
SumForces(fs) ==
    IF fs = <<>> THEN 0
    ELSE LET rest == SumForces(Tail(fs))
         IN  IF Head(fs) = NaN \/ rest = NaN THEN NaN ELSE Head(fs) + rest

RECURSIVE MaxFold(_, _)
MaxFold(m, fs) ==
    IF fs = <<>> THEN m
    ELSE MaxFold(IF m # NaN /\ Head(fs) # NaN /\ Head(fs) > m THEN Head(fs) ELSE m,
                 Tail(fs))

RECURSIVE MinFold(_, _)
MinFold(m, fs) ==
    IF fs = <<>> THEN m
    ELSE MinFold(IF m # NaN /\ Head(fs) # NaN /\ Head(fs) < m THEN Head(fs) ELSE m,
                 Tail(fs))

\* round(total / n, 2) on hundredths: the nearest hundredth
RoundDiv(total, n) ==
    IF total = NaN THEN NaN ELSE (2 * total + n) \div (2 * n)

Summary(data) ==
    LET forces == [i \in 1..Len(data) |-> data[i].force]
    IN  [totalReadings |-> Len(forces),
         avgForce |-> RoundDiv(SumForces(forces), Len(forces)),
         maxForce |-> MaxFold(Head(forces), Tail(forces)),
         minForce |-> MinFold(Head(forces), Tail(forces)),
         start |-> data[1].date,
         end |-> data[Len(data)].date]

\* INTEGER PRIMARY KEY AUTOINCREMENT: one more than the largest id there is
NextRowId(rows) ==
    IF rows = <<>> THEN 1 ELSE rows[Len(rows)].id + 1

save_session_unchecked(st, t) ==
    LET row == [id |-> NextRowId(st.rows), created_at |-> UtcNow(t),
                summary |-> IF st.data = <<>> THEN [totalReadings |-> 0]
                            ELSE Summary(st.data),
                data |-> DataJson(st.data, {"date"})]
    IN  clear_current_session([st EXCEPT !.rows = Append(@, row)])

\* save_session without the reset of the buffer
save_session_keep_buffer(st, t) ==
    IF st.data = <<>>
    THEN [st EXCEPT !.raised = "ValueError"]
    ELSE LET row == [id |-> NextRowId(st.rows), created_at |-> UtcNow(t),
                     summary |-> Summary(st.data),
                     data |-> DataJson(st.data, {"date"})]
         IN  [st EXCEPT !.rows = Append(@, row)]

save_session(st, t) ==
    IF st.data = <<>>
    THEN [st EXCEPT !.raised = "ValueError"]
    ELSE LET row == [id |-> NextRowId(st.rows), created_at |-> UtcNow(t),
                     summary |-> Summary(st.data),
                     data |-> DataJson(st.data, {"date"})]
         IN  clear_current_session([st EXCEPT !.rows = Append(@, row)])

end_session(st, save, t) ==
    IF ~st.active THEN st
    ELSE IF save
         THEN LET s1 == save_session(st, t)
              IN  IF s1.raised # "none" THEN s1
                  ELSE [s1 EXCEPT !.active = FALSE]
         ELSE [clear_current_session(st) EXCEPT !.active = FALSE]

(***************************************************************************)
(* The demo session seeded at construction.                                *)
(***************************************************************************)
DemoRecords ==
    << [sensorId |-> 1, force |-> 50, timestamp |-> 10, date |-> <<"csv", 10>>,
        event |-> 0],
       [sensorId |-> 2, force |-> 350, timestamp |-> 20, date |-> <<"csv", 20>>,
        event |-> 100] >>

DemoSummary ==
    [type |-> "demo", totalReadings |-> 2, avgForce |-> 200, maxForce |-> 350,
     minForce |-> 50, start |-> <<"csv", 10>>, end |-> <<"csv", 20>>]

DemoRow ==
    [id |-> 1, created_at |-> UtcNow(StartMs), summary |-> DemoSummary,
     data |-> DemoRecords]

IsDemo(row) == "type" \in DOMAIN row.summary /\ row.summary.type = "demo"

\* SELECT id ... LIKE '%"type": "demo"%', fetchone(): the first demo row, or None
_get_demo_session_id(rows) ==
    IF \E i \in 1..Len(rows) : IsDemo(rows[i])
    THEN rows[CHOOSE i \in 1..Len(rows) :
                /\ IsDemo(rows[i])
                /\ \A j \in 1..(i - 1) : ~IsDemo(rows[j])].id
    ELSE NoneId

get_session_data(rows, session_id) ==
    IF \E i \in 1..Len(rows) : rows[i].id = session_id
    THEN rows[CHOOSE i \in 1..Len(rows) : rows[i].id = session_id].data
    ELSE <<>>

load_demo_session(st) ==
    LET demo_id == _get_demo_session_id(st.rows)
    IN  IF demo_id = NoneId THEN st
        ELSE [st EXCEPT !.data = get_session_data(st.rows, demo_id),
                        !.active = TRUE, !.id = demo_id]

\* csv_string.strip() is empty
IsBlank(line) == line = <<"">> \/ line = <<" ">>

(***************************************************************************)
(* CSVParser.parse: the body of the try block, then the except clause.     *)
(***************************************************************************)
ParseBody(line) ==
    IF IsBlank(line) THEN None
    ELSE IF Len(line) < 4 THEN None
    ELSE IF ~IsIntText(line[1]) THEN Raise("ValueError")
    ELSE IF ~IsFloatText(line[2]) THEN Raise("ValueError")
    ELSE IF ~IsIntText(line[3]) THEN Raise("ValueError")
    ELSE IF ~IsFloatText(line[4]) THEN Raise("ValueError")
    ELSE IF ~InDatetimeRange(IntOf(line[3]) \div 1000) THEN Raise("ValueError")
    ELSE [sensorId |-> IntOf(line[1]),
          force |-> FloatOf(line[2]),
          timestamp |-> IntOf(line[3]),
          date |-> LocalOfMillis(IntOf(line[3])),
          event |-> FloatOf(line[4])]

parse_uncaught(line) == ParseBody(line)

parse(line) ==
    LET r == ParseBody(line)
    IN  IF "exc" \in DOMAIN r THEN None ELSE r

(***************************************************************************)
(* CSV export and import.  A file is its header line and its data lines,   *)
(* each the sequence of its comma-separated fields.                        *)
(***************************************************************************)
\* the text to_csv writes for the date string; '' is the empty sequence
DateText(date) == date
EmptyText == <<>>

\* df.rename(columns={...})
ExportColumns == <<"Sensor ID", "Force (Kg)", "Timestamp", "Date", "Event Flag">>

\* strs names the keys whose values are str: the date, and in the records
\* of an imported session the timestamp as well
to_csv_line(r, strs) ==
    <<IntText(r.sensorId), FloatText(r.force),
      IF "timestamp" \in strs THEN r.timestamp ELSE IntText(r.timestamp),
      DateText(r.date), FloatText(r.event)>>

to_csv(columns, data, strs) ==
    [header |-> columns,
     lines |-> [i \in 1..Len(data) |-> to_csv_line(data[i], strs)]]

\* the str-valued keys of the records of a saved session
StrKeys(rows, session_id) ==
    LET row == rows[CHOOSE i \in 1..Len(rows) : rows[i].id = session_id]
    IN  IF "name" \in DOMAIN row.summary THEN {"timestamp", "date"} ELSE {"date"}

\* pd.DataFrame(data).rename(columns=...).to_csv(out_path, index=False)
export_csv(data, strs) == to_csv(ExportColumns, data, strs)

\* csv.DictReader: the row as a dict from the header's names to the fields
HasColumn(file, name) == \E k \in 1..Len(file.header) : file.header[k] = name
Column(file, line, name) ==
    line[CHOOSE k \in 1..Len(file.header) : file.header[k] = name]

\* int(row.get('sensorId', 1)), float(row.get('force', 0)), row.get('timestamp', ''),
\* row.get('date', ''), float(row.get('event', 0.0))
import_record(file, line) ==
    [sensorId |-> IF HasColumn(file, "sensorId")
                  THEN IntOf(Column(file, line, "sensorId")) ELSE 1,
     force |-> IF HasColumn(file, "force")
               THEN FloatOf(Column(file, line, "force")) ELSE 0,
     timestamp |-> IF HasColumn(file, "timestamp")
                   THEN Column(file, line, "timestamp") ELSE "",
     date |-> IF HasColumn(file, "date")
              THEN Column(file, line, "date") ELSE EmptyText,
     event |-> IF HasColumn(file, "event")
               THEN FloatOf(Column(file, line, "event")) ELSE 0]

\* int() or float() would raise ValueError on this line
Unreadable(file, line) ==
    \/ HasColumn(file, "sensorId") /\ ~IsIntText(Column(file, line, "sensorId"))
    \/ HasColumn(file, "force") /\ ~IsFloatText(Column(file, line, "force"))
    \/ HasColumn(file, "event") /\ ~IsFloatText(Column(file, line, "event"))

import_csv_as_demo_session(st, file, t) ==
    IF \E i \in 1..Len(file.lines) : Unreadable(file, file.lines[i])
    THEN [st EXCEPT !.raised = "ValueError"]
    ELSE IF file.lines = <<>> THEN [st EXCEPT !.raised = "ValueError"]
    ELSE LET records == [i \in 1..Len(file.lines) |->
                           import_record(file, file.lines[i])]
             s == Summary(records)
             row == [id |-> NextRowId(st.rows), created_at |-> UtcNow(t),
                     summary |-> [type |-> "demo",
                                  name |-> "Noche Simulada - Datos de Demostración",
                                  totalReadings |-> s.totalReadings,
                                  avgForce |-> s.avgForce, maxForce |-> s.maxForce,
                                  minForce |-> s.minForce, start |-> s.start,
                                  end |-> s.end],
                     data |-> DataJson(records, {"timestamp", "date"})]
         IN  [st EXCEPT !.rows = Append(@, row)]

(***************************************************************************)
(* MainWindow.on_ble_data: parse, then add_record when a record came back. *)
(* Its own except clause swallows whatever parse or add_record raise.      *)
(***************************************************************************)
on_ble_data(st, line, t) ==
    LET record == parse(line)
    IN  IF IsDict(record) THEN add_record(st, record, t) ELSE st

(***************************************************************************)
(* BLEService.start_notify._notification_handler.  A payload is its byte   *)
(* length and the five floats struct.unpack("<fffff") reads from 20 bytes: *)
(* emaL, eventOn_left, F_L, F_R, eventOn_right.                            *)
(***************************************************************************)
FrameBytes == 20

Payloads ==
    { [n |-> 20, f |-> <<0, 100, 350, 50, 0>>],
      [n |-> 20, f |-> <<50, 50, NaN, 350, 100>>],
      [n |-> 19, f |-> <<>>],
      [n |-> 24, f |-> <<>>] }

csv_left(data, t) == <<"1", FloatText(data.f[3]), IntText(t), FloatText(data.f[2])>>
csv_right(data, t) == <<"2", FloatText(data.f[4]), IntText(t), FloatText(data.f[5])>>

_notification_handler_swapped(data, t) ==
    IF data.n # FrameBytes THEN <<>>
    ELSE <<csv_right(data, t), csv_left(data, t)>>

\* struct.unpack_from: reads the first 20 bytes of a longer payload
_notification_handler_prefix(data, t) ==
    IF data.n < FrameBytes THEN <<>>
    ELSE LET d == IF data.n > FrameBytes
                  THEN [data EXCEPT !.f = <<0, 0, 0, 0, 0>>] ELSE data
         IN  <<csv_left(d, t), csv_right(d, t)>>

\* the lines the handler passes to callback, in order; none on struct.error
_notification_handler(data, t) ==
    IF data.n # FrameBytes THEN <<>>
    ELSE <<csv_left(data, t), csv_right(data, t)>>

(***************************************************************************)
(* LivePlot: the simulator and update_plot.                                *)
(***************************************************************************)
\* random.uniform(2.5, 4.5) with event 1.0, or random.uniform(0.1, 1.0) with event 0.0
SimLevels == {<<350, 100>>, <<50, 0>>}

_simulate_one_sample(st, sensor, level, t) ==
    add_record(st, [sensorId |-> sensor, force |-> level[1], timestamp |-> t,
                    date |-> UtcNow(t), event |-> level[2]], t)

update_plot(st, sim, sensor, level, t) ==
    IF sim THEN _simulate_one_sample(st, sensor, level, t) ELSE st

start_simulation(st, t) == start_new_session(st, t)

stop_simulation(st, save, t) == end_session(st, save, t)

(***************************************************************************)
(* MainWindow handlers.  Each runs to completion on the GUI thread and its *)
(* except clause swallows every exception.                                 *)
(***************************************************************************)
Caught(st) == [st EXCEPT !.raised = "none"]

start_simulation_session(st, t) ==
    Caught(start_simulation(start_new_session(st, t), t))

start_real_session(st, t) ==
    Caught(start_new_session(st, t))

stop_session(st, sim, t) ==
    LET s0 == [st EXCEPT !.active = FALSE]
    IN  Caught(IF sim THEN stop_simulation(s0, TRUE, t)
               ELSE end_session(s0, TRUE, t))

clear_data(st, sim, sensor, level, t) ==
    LET s0 == [st EXCEPT !.active = FALSE]
    IN  Caught(update_plot(clear_current_session(s0), sim, sensor, level, t))

(***************************************************************************)
(* State and bounds.                                                       *)
(***************************************************************************)
RECURSIVE Persisted(_)
Persisted(rows) ==
    IF rows = <<>> THEN 0
    ELSE (IF IsDemo(Head(rows)) THEN 0 ELSE Len(Head(rows).data))
         + Persisted(Tail(rows))

RoomForRecord ==
    Len(current_session_data) + Persisted(sessions) < MaxRecords

RoomForRow == Len(sessions) < MaxSessions

Called(name) ==
    /\ last' = name
    /\ was_active' = session_active

Init ==
    /\ current_session_data = <<>>
    /\ current_session_id = NoneId
    /\ session_active = FALSE
    /\ sessions \in {<<>>, <<DemoRow>>}
    /\ simulating = FALSE
    /\ simulation_timer = FALSE
    /\ inbox = <<>>
    /\ now = StartMs
    /\ raised = "none"
    /\ last = "__init__"
    /\ was_active = FALSE
    /\ raw_csv = <<"">>
    /\ parsed = None
    /\ received = <<>>
    /\ delivered = <<>>
    /\ df = <<>>
    /\ dashboard = None
    /\ resegmented = None
    /\ generator = None
    /\ report_text = None
    /\ csv_file = None
    /\ exported = <<>>
    /\ force_distribution = None

(***************************************************************************)
(* Quick actions and timers (MainWindow).                                  *)
(***************************************************************************)
StartSimulationSession ==
    /\ SetStore(start_simulation_session(Store, now))
    /\ simulating' = TRUE
    /\ simulation_timer' = TRUE
    /\ Called("start_simulation_session")
    /\ UNCHANGED <<inbox, now, raw_csv, parsed, received, delivered>>
    /\ UNCHANGED <<reportVars, exportVars, floatVars>>

StartRealSession ==
    /\ SetStore(start_real_session(Store, now))
    /\ Called("start_real_session")
    /\ UNCHANGED <<simulating, simulation_timer, inbox, now, raw_csv, parsed,
                   received, delivered>>
    /\ UNCHANGED <<reportVars, exportVars, floatVars>>

StopSession ==
    /\ SetStore(stop_session(Store, simulating, now))
    /\ simulating' = FALSE
    /\ simulation_timer' = FALSE
    /\ Called("stop_session")
    /\ UNCHANGED <<inbox, now, raw_csv, parsed, received, delivered>>
    /\ UNCHANGED <<reportVars, exportVars, floatVars>>

ClearData ==
    /\ simulating => RoomForRecord
    /\ \E sensor \in SensorIds, level \in SimLevels :
          SetStore(clear_data(Store, simulating, sensor, level, now))
    /\ Called("clear_data")
    /\ UNCHANGED <<simulating, simulation_timer, inbox, now, raw_csv, parsed,
                   received, delivered>>
    /\ UNCHANGED <<reportVars, exportVars, floatVars>>

\* refresh_timer.timeout -> _refresh -> live_plot.update_plot
RefreshTimeout ==
    /\ simulating => RoomForRecord
    /\ \E sensor \in SensorIds, level \in SimLevels :
          SetStore(Caught(update_plot(Store, simulating, sensor, level, now)))
    /\ Called("_refresh")
    /\ UNCHANGED <<simulating, simulation_timer, inbox, now, raw_csv, parsed,
                   received, delivered>>
    /\ UNCHANGED <<reportVars, exportVars, floatVars>>

\* simulation_timer.timeout -> live_plot.update_plot
SimulationTimeout ==
    /\ simulation_timer
    /\ simulating => RoomForRecord
    /\ \E sensor \in SensorIds, level \in SimLevels :
          SetStore(update_plot(Store, simulating, sensor, level, now))
    /\ Called("update_plot")
    /\ UNCHANGED <<simulating, simulation_timer, inbox, now, raw_csv, parsed,
                   received, delivered>>
    /\ UNCHANGED <<reportVars, exportVars, floatVars>>

(***************************************************************************)
(* DataStorage methods called on the store directly.                       *)
(***************************************************************************)
AddForceValue ==
    /\ RoomForRecord
    /\ \E force \in ForceVals :
          SetStore(add_force_value(Store, force, 1, 0, now))
    /\ Called("add_force_value")
    /\ UNCHANGED <<simulating, simulation_timer, inbox, now, raw_csv, parsed,
                   received, delivered>>
    /\ UNCHANGED <<reportVars, exportVars, floatVars>>

EndSession ==
    /\ \E save \in BOOLEAN :
          /\ save => RoomForRow
          /\ SetStore(end_session(Store, save, now))
          /\ Called(IF save THEN "end_session(save=True)"
                    ELSE "end_session(save=False)")
    /\ UNCHANGED <<simulating, simulation_timer, inbox, now, raw_csv, parsed,
                   received, delivered>>
    /\ UNCHANGED <<reportVars, exportVars, floatVars>>

SaveSession ==
    /\ RoomForRow
    /\ SetStore(save_session(Store, now))
    /\ Called("save_session")
    /\ UNCHANGED <<simulating, simulation_timer, inbox, now, raw_csv, parsed,
                   received, delivered>>
    /\ UNCHANGED <<reportVars, exportVars, floatVars>>

ClearCurrentSession ==
    /\ SetStore(clear_current_session(Store))
    /\ Called("clear_current_session")
    /\ UNCHANGED <<simulating, simulation_timer, inbox, now, raw_csv, parsed,
                   received, delivered>>
    /\ UNCHANGED <<reportVars, exportVars, floatVars>>

LoadDemoSession ==
    /\ SetStore(load_demo_session(Store))
    /\ Called("load_demo_session")
    /\ UNCHANGED <<simulating, simulation_timer, inbox, now, raw_csv, parsed,
                   received, delivered>>
    /\ UNCHANGED <<reportVars, exportVars, floatVars>>

Next ==
    \/ StartSimulationSession
    \/ StartRealSession
    \/ StopSession
    \/ ClearData
    \/ RefreshTimeout
    \/ SimulationTimeout
    \/ AddForceValue
    \/ EndSession
    \/ SaveSession
    \/ ClearCurrentSession
    \/ LoadDemoSession

Spec == Init /\ [][Next]_vars

(***************************************************************************)
(* Acquisition.  The notification handler runs on the BLE worker thread    *)
(* and emits each line as a queued signal; the GUI thread takes the lines  *)
(* in order, one on_ble_data call each, between its other handlers.        *)
(***************************************************************************)
Tick ==
    /\ now < StartMs + MaxTicks
    /\ now' = now + 1
    /\ UNCHANGED <<current_session_data, current_session_id, session_active,
                   sessions, simulating, simulation_timer, inbox, raised, last,
                   was_active, raw_csv, parsed, received, delivered>>
    /\ UNCHANGED <<reportVars, exportVars, floatVars>>

NotificationHandler ==
    /\ Len(received) < MaxFrames
    /\ \E data \in Payloads :
          /\ received' = Append(received, [data |-> data, at |-> now])
          /\ inbox' = inbox \o _notification_handler(data, now)
    /\ raised' = "none"
    /\ Called("_notification_handler")
    /\ UNCHANGED <<current_session_data, current_session_id, session_active,
                   sessions, simulating, simulation_timer, now, raw_csv, parsed,
                   delivered>>
    /\ UNCHANGED <<reportVars, exportVars, floatVars>>

\* data_received -> BLEPanel.on_data -> data_callback = MainWindow.on_ble_data
OnBleData ==
    /\ inbox # <<>>
    /\ LET st == Caught(on_ble_data(Store, Head(inbox), now))
       IN  /\ SetStore(st)
           /\ delivered' =
                 IF Len(st.data) = Len(current_session_data) + 1
                 THEN Append(delivered, st.data[Len(st.data)])
                 ELSE delivered
    /\ inbox' = Tail(inbox)
    /\ raw_csv' = Head(inbox)
    /\ parsed' = parse(Head(inbox))
    /\ Called("on_ble_data")
    /\ UNCHANGED <<simulating, simulation_timer, now, received>>
    /\ UNCHANGED <<reportVars, exportVars, floatVars>>

NextBle ==
    \/ Tick
    \/ NotificationHandler
    \/ OnBleData
    \/ StartRealSession
    \/ StopSession

SpecBle == Init /\ [][NextBle]_vars

(***************************************************************************)
(* The parser alone: one call on each input line, directly and through     *)
(* on_ble_data.                                                            *)
(***************************************************************************)
LineFields == {"", "abc", "1", "3", "0.5", "1000000"}

Lines == UNION {[1..k -> LineFields] : k \in 1..MaxFields}

InitParse ==
    /\ raw_csv \in Lines
    /\ current_session_data \in
          {<<>>, <<[sensorId |-> 2, force |-> 350, timestamp |-> StartMs,
                    date |-> LocalOfMillis(StartMs), event |-> 100]>>}
    /\ session_active = (current_session_data # <<>>)
    /\ current_session_id = IF session_active THEN NowSeconds(StartMs) ELSE NoneId
    /\ sessions = <<>>
    /\ simulating = FALSE
    /\ simulation_timer = FALSE
    /\ inbox = <<>>
    /\ now = StartMs
    /\ raised = "none"
    /\ last = "__init__"
    /\ was_active = FALSE
    /\ parsed = None
    /\ received = <<>>
    /\ delivered = <<>>
    /\ df = <<>>
    /\ dashboard = None
    /\ resegmented = None
    /\ generator = None
    /\ report_text = None
    /\ csv_file = None
    /\ exported = <<>>
    /\ force_distribution = None

ParseCall ==
    /\ last = "__init__"
    /\ parsed' = parse(raw_csv)
    /\ raised' = IF "exc" \in DOMAIN parsed' THEN parsed'.exc ELSE "none"
    /\ Called("parse")
    /\ UNCHANGED <<current_session_data, current_session_id, session_active,
                   sessions, simulating, simulation_timer, inbox, now, raw_csv,
                   received, delivered>>
    /\ UNCHANGED <<reportVars, exportVars, floatVars>>

OnBleDataCall ==
    /\ last = "__init__"
    /\ SetStore(Caught(on_ble_data(Store, raw_csv, now)))
    /\ parsed' = parse(raw_csv)
    /\ Called("on_ble_data")
    /\ UNCHANGED <<simulating, simulation_timer, inbox, now, raw_csv, received,
                   delivered>>
    /\ UNCHANGED <<reportVars, exportVars, floatVars>>

NextParse ==
    \/ ParseCall
    \/ OnBleDataCall

SpecParse == InitParse /\ [][NextParse]_vars

(***************************************************************************)
(* Report pipeline.  A row of the DataFrame is                             *)
(*   [sensorId, force, timestamp, event]                                   *)
(* where timestamp is the datetime pd.to_datetime reads from the "date"    *)
(* column, counted in minutes from midnight of the first day, force is in  *)
(* hundredths of a kilogram and event 1.0 is 100.                          *)
(***************************************************************************)
MinutesPerHour == 60
OvernightHours == 5
HoursPerDay == 24

SetMax(S) == CHOOSE x \in S : \A y \in S : y <= x
SetMin(S) == CHOOSE x \in S : \A y \in S : x <= y

Timestamps(rows) == {rows[i].timestamp : i \in 1..Len(rows)}

\* df[df['sensorId'] == sensor_id].reset_index(drop=True): the original
\* index of a row is its position in this sequence
SensorRows(rows, sid) == SelectSeq(rows, LAMBDA r : r.sensorId = sid)

is_overnight_data_strict(sensor_df) ==
    /\ sensor_df # <<>>
    /\ SetMax(Timestamps(sensor_df)) - SetMin(Timestamps(sensor_df))
          > OvernightHours * MinutesPerHour

\* (max_timestamp - min_timestamp).total_seconds() / 3600 >= 5; the span of
\* an empty frame is NaN, and NaN >= 5 is False
is_overnight_data(sensor_df) ==
    /\ sensor_df # <<>>
    /\ SetMax(Timestamps(sensor_df)) - SetMin(Timestamps(sensor_df))
          >= OvernightHours * MinutesPerHour

\* sensor_df[sensor_df['event'] == 1.0]
EventRows(sensor_df) == SelectSeq(sensor_df, LAMBDA r : r.event = 100)

EventIndices(sensor_df) == {i \in 1..Len(sensor_df) : sensor_df[i].event = 100}

\* event_rows.sort_values('timestamp'): the default kind is quicksort, which
\* is not stable, so every ordering of the original indices with
\* non-decreasing timestamps is a possible result
sort_values(sensor_df) ==
    LET idx == EventIndices(sensor_df)
        n == Cardinality(idx)
    IN  {p \in [1..n -> idx] :
            /\ \A a, b \in 1..n : a # b => p[a] # p[b]
            /\ \A a \in 1..(n - 1) :
                  sensor_df[p[a]].timestamp <= sensor_df[p[a + 1]].timestamp}

\* the last position of the episode_group that starts at position k:
\* a new group starts wherever original_index_diff != 1
GroupEnd(p, k) ==
    SetMax({j \in k..Len(p) : \A m \in (k + 1)..j : p[m] - p[m - 1] = 1})

episodes_list_unmerged(sensor_df, p, k) ==
    [i \in 1..Len(p) |->
        [timestamp |-> sensor_df[p[i]].timestamp, force |-> sensor_df[p[i]].force,
         event |-> 100]]

\* episodes_list: first timestamp and max force of every episode_group
RECURSIVE episodes_list(_, _, _)
episodes_list(sensor_df, p, k) ==
    IF k > Len(p) THEN <<>>
    ELSE LET e == GroupEnd(p, k)
         IN  << [timestamp |-> sensor_df[p[k]].timestamp,
                 force |-> SetMax({sensor_df[p[m]].force : m \in k..e}),
                 event |-> 100] >>
             \o episodes_list(sensor_df, p, e + 1)

\* every group keeps only its first row
RECURSIVE episode_group_first_row(_, _)
episode_group_first_row(p, k) ==
    IF k > Len(p) THEN <<>>
    ELSE <<{p[k]}>> \o episode_group_first_row(p, GroupEnd(p, k) + 1)

\* event_rows['episode_group']: for every episode the rows of sensor_df, by
\* original index, that groupby puts in it
RECURSIVE episode_group(_, _)
episode_group(p, k) ==
    IF k > Len(p) THEN <<>>
    ELSE LET e == GroupEnd(p, k)
         IN  <<{p[m] : m \in k..e}>> \o episode_group(p, e + 1)

\* events['force'].mean() as the pair of its sum and its count, and
\* events['force'].max(); both 0 without events
EventsForceSum(events) ==
    LET Sum[i \in 0..Len(events)] ==
            IF i = 0 THEN 0 ELSE Sum[i - 1] + events[i].force
    IN  Sum[Len(events)]

EventsForceMax(events) ==
    IF events = <<>> THEN 0
    ELSE SetMax({events[i].force : i \in 1..Len(events)})

\* get_severity_level(total_events, mean_force, max_force), the mean given
\* by force_sum / total_events
get_severity_level(total_events, force_sum, max_force) ==
    IF max_force > 1000 \/ force_sum > 700 * total_events \/ total_events > 60
    THEN "SEVERO"
    ELSE IF max_force > 700 \/ force_sum > 500 * total_events \/ total_events > 40
    THEN "MODERADO"
    ELSE IF max_force > 500 \/ force_sum > 300 * total_events \/ total_events > 20
    THEN "LEVE"
    ELSE "NORMAL"

\* generate_dashboard up to severity_level; p is the order sort_values gave
\* the event rows
generate_dashboard(rows, sid, p) ==
    LET sensor_df == SensorRows(rows, sid)
        overnight == is_overnight_data(sensor_df)
        events == IF overnight THEN EventRows(sensor_df)
                  ELSE episodes_list(sensor_df, p, 1)
    IN  [sensor_id |-> sid, is_overnight_data |-> overnight,
         events |-> events, total_events |-> Len(events),
         episode_group |-> IF overnight THEN <<>> ELSE episode_group(p, 1),
         severity_level |-> get_severity_level(Len(events), EventsForceSum(events),
                                               EventsForceMax(events))]

\* episodes fed back as records of one sensor, every event flag 1.0
AsRecords(events, sid) ==
    [i \in 1..Len(events) |->
        [sensorId |-> sid, force |-> events[i].force,
         timestamp |-> events[i].timestamp, event |-> 100]]

(***************************************************************************)
(* BruxismReportGenerator.  A quotient is kept exact as [num, den];        *)
(* den = 0 is the NaN that pandas gives the standard deviation of a single *)
(* value.                                                                  *)
(***************************************************************************)
Rat(n, d) == [num |-> n, den |-> d]
Zero == Rat(0, 1)

\* r > k and r < k for a number r = num/den, False for NaN
Above(r, k) == r.den > 0 /\ r.num > k * r.den
Below(r, k) == r.den > 0 /\ r.num < k * r.den

RECURSIVE SeqSum(_)
SeqSum(xs) == IF xs = <<>> THEN 0 ELSE Head(xs) + SeqSum(Tail(xs))

Forces(events) == [i \in 1..Len(events) |-> events[i].force]

\* len(self.events[self.events['force'] ...]) for the four masks in use
ForcesBelow(events, x) == Cardinality({i \in 1..Len(events) : events[i].force < x})
ForcesUpTo(events, x) == Cardinality({i \in 1..Len(events) : events[i].force <= x})
ForcesAbove(events, x) == Len(events) - ForcesUpTo(events, x)
ForcesFrom(events, x) == Len(events) - ForcesBelow(events, x)

\* count / self.total_events * 100
Percent(count, total_events) == Rat(100 * count, total_events)

\* the k-th smallest force
KthForce(events, k) ==
    CHOOSE x \in {events[i].force : i \in 1..Len(events)} :
        /\ ForcesBelow(events, x) < k
        /\ ForcesUpTo(events, x) >= k

\* Series.median(): the mean of the two middle values
Median(events) ==
    LET n == Len(events)
    IN  Rat(KthForce(events, (n + 1) \div 2) + KthForce(events, (n \div 2) + 1), 2)

\* (std_force / mean_force) squared, with Series.std() the sample standard
\* deviation (ddof = 1): n (n Q - S^2) / ((n - 1) S^2).  The quotient does not
\* depend on the unit of force; the forces the model draws are multiples of
\* half a kilogram (50) and the sums are taken in that unit.
CvSquared(events) ==
    LET n == Len(events)
        xs == [i \in 1..n |-> events[i].force \div 50]
        S == SeqSum(xs)
        Q == SeqSum([i \in 1..n |-> xs[i] * xs[i]])
    IN  IF n = 1 THEN Rat(0, 0)
        ELSE IF S <= 0 THEN Zero
        ELSE Rat(n * (n * Q - S * S), (n - 1) * S * S)

\* self.events['timestamp'].dt.hour
HourOf(row) == (row.timestamp \div MinutesPerHour) % HoursPerDay

InHours(events, hours) ==
    Cardinality({i \in 1..Len(events) : HourOf(events[i]) \in hours})

\* hourly_counts.idxmax(): the first hour, in hour order, with the largest count
PeakHour(events) ==
    LET top == SetMax({InHours(events, {h}) : h \in 0..(HoursPerDay - 1)})
    IN  SetMin({h \in 0..(HoursPerDay - 1) : InHours(events, {h}) = top})

\* the largest count of a single hour
MaxTwoHourCount_single_hour(events) ==
    SetMax({InHours(events, {h}) : h \in 0..(HoursPerDay - 1)})

\* the largest share of events in a window of two adjacent hours
MaxTwoHourCount(events) ==
    SetMax({InHours(events, {h, (h + 1) % HoursPerDay}) : h \in 0..(HoursPerDay - 1)})

\* self.peak_hour = None
NoPeakHour == 0 - 1

\* force_cv < 0.2 and force_cv < 0.4, on the square of force_cv
CvBelowFifth(cv2) == cv2.den > 0 /\ 25 * cv2.num < cv2.den
CvBelowTwoFifths(cv2) == cv2.den > 0 /\ 25 * cv2.num < 4 * cv2.den

SeverityLevel_inclusive(max_force, mean_force, total_events) ==
    IF max_force >= 1200 \/ ~Below(mean_force, 800) \/ total_events >= 80
    THEN "CRITICAL"
    ELSE IF max_force >= 1000 \/ ~Below(mean_force, 700) \/ total_events >= 60
    THEN "SEVERE"
    ELSE IF max_force >= 700 \/ ~Below(mean_force, 500) \/ total_events >= 40
    THEN "MODERATE"
    ELSE IF max_force >= 500 \/ ~Below(mean_force, 300) \/ total_events >= 20
    THEN "MILD"
    ELSE "NORMAL"

SeverityLevel_without_mean(max_force, mean_force, total_events) ==
    IF max_force > 1200 \/ total_events > 80 THEN "CRITICAL"
    ELSE IF max_force > 1000 \/ total_events > 60 THEN "SEVERE"
    ELSE IF max_force > 700 \/ total_events > 40 THEN "MODERATE"
    ELSE IF max_force > 500 \/ total_events > 20 THEN "MILD"
    ELSE "NORMAL"

\* classify_all_parameters: severity level
SeverityLevel(max_force, mean_force, total_events) ==
    IF max_force > 1200 \/ Above(mean_force, 800) \/ total_events > 80
    THEN "CRITICAL"
    ELSE IF max_force > 1000 \/ Above(mean_force, 700) \/ total_events > 60
    THEN "SEVERE"
    ELSE IF max_force > 700 \/ Above(mean_force, 500) \/ total_events > 40
    THEN "MODERATE"
    ELSE IF max_force > 500 \/ Above(mean_force, 300) \/ total_events > 20
    THEN "MILD"
    ELSE "NORMAL"

\* classify_all_parameters: temporal pattern; "self.peak_hour and ..." is
\* false for None and for hour 0
TemporalPattern(rem_concentration, temporal_concentration, peak_hour) ==
    IF Above(rem_concentration, 60) THEN "REM_DOMINANT"
    ELSE IF Below(temporal_concentration, 30) THEN "DISTRIBUTED"
    ELSE IF (peak_hour # NoPeakHour /\ peak_hour # 0) /\ peak_hour <= 2
    THEN "EARLY_NIGHT"
    ELSE "LATE_NIGHT"

\* classify_all_parameters: force pattern
ForcePattern(force_cv, low_force_pct, high_force_pct) ==
    IF CvBelowFifth(force_cv) THEN "CONSISTENT"
    ELSE IF CvBelowTwoFifths(force_cv) THEN "MODERATE_VARIABILITY"
    ELSE IF Above(low_force_pct, 25) /\ Above(high_force_pct, 25) THEN "BIMODAL"
    ELSE "HIGHLY_VARIABLE"

RiskLevel_severity_first(max_force, severity_level, rem_concentration) ==
    IF severity_level \in {"SEVERE", "CRITICAL"} /\ Above(rem_concentration, 50)
    THEN "HIGH"
    ELSE IF max_force > 1200 THEN "URGENT"
    ELSE IF severity_level = "MODERATE" THEN "MODERATE"
    ELSE "LOW"

\* classify_all_parameters: risk level
RiskLevel(max_force, severity_level, rem_concentration) ==
    IF max_force > 1200 THEN "URGENT"
    ELSE IF severity_level \in {"SEVERE", "CRITICAL"} /\ Above(rem_concentration, 50)
    THEN "HIGH"
    ELSE IF severity_level = "MODERATE" THEN "MODERATE"
    ELSE "LOW"

classify_all_parameters(self) ==
    LET severity == SeverityLevel(self.max_force, self.mean_force, self.total_events)
    IN  [self EXCEPT
            !.severity_level = severity,
            !.temporal_pattern =
                TemporalPattern(self.rem_concentration,
                                self.temporal_concentration, self.peak_hour),
            !.force_pattern =
                ForcePattern(self.force_cv, self.low_force_pct, self.high_force_pct),
            !.risk_level =
                RiskLevel(self.max_force, severity, self.rem_concentration)]

\* the fields calculate_parameters sets when there are no events
NoEventsProfile(sid, events) ==
    [sensor_id |-> sid,
     sensor_name |-> IF sid = 1 THEN "IZQUIERDO" ELSE "DERECHO",
     events |-> events, total_events |-> 0,
     mean_force |-> Zero, max_force |-> 0, median_force |-> Zero,
     force_cv |-> Zero, low_force_pct |-> Zero, high_force_pct |-> Zero,
     rem_concentration |-> Zero, peak_hour |-> NoPeakHour,
     peak_hour_events |-> 0, temporal_concentration |-> Zero,
     severity_level |-> "NORMAL", temporal_pattern |-> "NO_EVENTS",
     force_pattern |-> "NO_EVENTS", risk_level |-> "LOW"]

\* force_cv holds the square of std_force / mean_force
calculate_parameters(sid, events) ==
    LET n == Len(events)
    IN  IF n = 0 THEN NoEventsProfile(sid, events)
        ELSE classify_all_parameters(
               [NoEventsProfile(sid, events) EXCEPT
                  !.total_events = n,
                  !.mean_force = Rat(SeqSum(Forces(events)), n),
                  !.max_force = SetMax({events[i].force : i \in 1..n}),
                  !.median_force = Median(events),
                  !.force_cv = CvSquared(events),
                  !.low_force_pct = Percent(ForcesBelow(events, 500), n),
                  !.high_force_pct = Percent(ForcesFrom(events, 700), n),
                  !.rem_concentration = Percent(InHours(events, {2, 3}), n),
                  !.peak_hour = PeakHour(events),
                  !.peak_hour_events = InHours(events, {PeakHour(events)}),
                  !.temporal_concentration =
                      Rat(100 * MaxTwoHourCount(events), n)])

\* BruxismReportGenerator.__init__
BruxismReportGenerator(rows, sid) ==
    calculate_parameters(sid, EventRows(SensorRows(rows, sid)))

MsPerMinute == 60000

\* datetime.now().strftime('%Y-%m-%d %H:%M'): the wall clock, to the minute
StrftimeMinute(t) == t \div MsPerMinute

\* generate_summary_report: the fixed text for a sensor without events
NoEventsText(self, t) ==
    [kind |-> "No se detectaron eventos de bruxismo", sensor_name |-> self.sensor_name,
     fecha |-> StrftimeMinute(t)]

\* f"{self.peak_hour:02d}": TypeError when the value is None
FormatHour(peak_hour) ==
    IF peak_hour = NoPeakHour THEN Raise("TypeError") ELSE [hour |-> peak_hour]

\* generate_summary_report: the text assembled from the profile
SummaryText(self, t) ==
    LET severe == self.severity_level \in {"SEVERE", "CRITICAL"}
        moderate == self.severity_level = "MODERATE"
        erratic == self.force_pattern \in {"HIGHLY_VARIABLE", "BIMODAL"}
    IN  [kind |-> "PATRON IDENTIFICADO",
         sensor_name |-> self.sensor_name,
         temporal_desc |->
             IF self.temporal_pattern \in
                   {"REM_DOMINANT", "DISTRIBUTED", "EARLY_NIGHT", "LATE_NIGHT"}
             THEN self.temporal_pattern ELSE "Patron temporal mixto",
         force_desc |->
             IF self.force_pattern \in
                   {"CONSISTENT", "BIMODAL", "HIGHLY_VARIABLE", "MODERATE_VARIABILITY"}
             THEN self.force_pattern ELSE "fuerzas variables",
         clinical_meaning |->
             IF self.temporal_pattern = "REM_DOMINANT"
             THEN IF erratic THEN "estres con activacion REM" ELSE "sueno primario"
             ELSE IF erratic THEN "mediado por estres"
             ELSE "transiciones de sueno",
         peak_insight |->
             IF self.peak_hour # NoPeakHour
             THEN <<FormatHour(self.peak_hour), self.peak_hour_events>> ELSE <<>>,
         severity_context |->
             IF severe
             THEN <<"eventos severos", ForcesAbove(self.events, 700)>>
             ELSE IF moderate
             THEN <<"umbral moderado", ForcesAbove(self.events, 500)>>
             ELSE <<"rangos manejables">>,
         primary_risk |->
             IF self.max_force > 1000 THEN "fractura dental (ALTO)"
             ELSE IF self.max_force > 700 THEN "desgaste dental (MODERADO-ALTO)"
             ELSE IF Above(self.mean_force, 500) THEN "desgaste cronico (MODERADO)"
             ELSE "Sin riesgos inmediatos",
         primary_intervention |->
             IF severe THEN "Terapia Inmediata con Ferula Oclusal"
             ELSE IF moderate THEN "Terapia con Ferula Oclusal"
             ELSE "Manejo Conservador",
         followup |->
             IF self.risk_level = "URGENT" THEN "1 semana"
             ELSE IF self.risk_level = "HIGH" THEN "2 semanas"
             ELSE IF self.risk_level = "MODERATE" THEN "4 semanas"
             ELSE "8-12 semanas",
         key_metric |->
             IF severe THEN "fuerza maxima <7kg y frecuencia -40%"
             ELSE IF moderate THEN "fuerza promedio -30%"
             ELSE "monitoreo de progresion",
         severity_level |-> self.severity_level,
         total_events |-> self.total_events,
         max_force |-> self.max_force,
         fecha |-> StrftimeMinute(t)]

generate_summary_report_unguarded(self, t) == SummaryText(self, t)

generate_summary_report(self, t) ==
    IF self.total_events = 0 THEN NoEventsText(self, t) ELSE SummaryText(self, t)

(***************************************************************************)
(* generate_bruxism_pdf_report and ReportsWidget call generate_dashboard   *)
(* and BruxismReportGenerator once per sensor on the rows of a session.    *)
(***************************************************************************)
MaxRows == 3        \* rows of a session handed to the report
RowForces == {400, 1100}
RowTimes == {0, 299, 300}

Rows ==
    {[sensorId |-> 1, force |-> f, timestamp |-> t, event |-> 100] :
        f \in RowForces, t \in RowTimes}
    \cup {[sensorId |-> 1, force |-> 400, timestamp |-> t, event |-> 0] :
        t \in RowTimes}
    \cup {[sensorId |-> 2, force |-> 400, timestamp |-> 0, event |-> 0],
          [sensorId |-> 2, force |-> 1100, timestamp |-> 299, event |-> 100],
          [sensorId |-> 2, force |-> 400, timestamp |-> 300, event |-> 100]}

\* twelve rows of sensor 1, one a minute, events at original indices
\* 5, 6, 7, 10 and 11 (positions 6, 7, 8, 11 and 12)
ExampleFrame ==
    [i \in 1..12 |->
        [sensorId |-> 1, force |-> IF i = 7 THEN 1100 ELSE 400,
         timestamp |-> i - 1,
         event |-> IF i \in {6, 7, 8, 11, 12} THEN 100 ELSE 0]]

Frames == UNION {[1..k -> Rows] : k \in 0..MaxRows} \cup {ExampleFrame}

InitReport ==
    /\ df \in Frames
    /\ dashboard = None
    /\ resegmented = None
    /\ generator = None
    /\ report_text = None
    /\ csv_file = None
    /\ exported = <<>>
    /\ force_distribution = None
    /\ current_session_data = <<>>
    /\ current_session_id = NoneId
    /\ session_active = FALSE
    /\ sessions = <<>>
    /\ simulating = FALSE
    /\ simulation_timer = FALSE
    /\ inbox = <<>>
    /\ now = StartMs
    /\ raised = "none"
    /\ last = "__init__"
    /\ was_active = FALSE
    /\ raw_csv = <<"">>
    /\ parsed = None
    /\ received = <<>>
    /\ delivered = <<>>

GenerateDashboard ==
    /\ dashboard = None /\ generator = None
    /\ \E sid \in SensorIds :
          \E p \in sort_values(SensorRows(df, sid)) :
              dashboard' = generate_dashboard(df, sid, p)
    /\ UNCHANGED <<df, resegmented, generator, report_text>>
    /\ UNCHANGED <<acquisitionVars, exportVars, floatVars>>

\* the episodes of the last dashboard, segmented again as records of its sensor
Resegment ==
    /\ dashboard # None /\ resegmented = None
    /\ LET records == AsRecords(dashboard.events, dashboard.sensor_id)
       IN  \E p \in sort_values(records) :
              resegmented' = generate_dashboard(records, dashboard.sensor_id, p)
    /\ UNCHANGED <<df, dashboard, generator, report_text>>
    /\ UNCHANGED <<acquisitionVars, exportVars, floatVars>>

GenerateReport ==
    /\ dashboard = None /\ generator = None
    /\ \E sid \in SensorIds :
          /\ generator' = BruxismReportGenerator(df, sid)
          /\ report_text' = generate_summary_report(generator', now)
    /\ UNCHANGED <<df, dashboard, resegmented>>
    /\ UNCHANGED <<acquisitionVars, exportVars, floatVars>>

NextReport ==
    \/ GenerateDashboard
    \/ Resegment
    \/ GenerateReport

SpecReport == InitReport /\ [][NextReport]_vars

(***************************************************************************)
(* The classifier on its own, over sessions long enough to pass the event  *)
(* count thresholds: a block of identical low-force event rows followed by *)
(* a few rows of any force, or a few low-force rows at any hour.           *)
(***************************************************************************)
MaxForceRows == 2   \* rows of any force after the block
MaxHourRows == 4    \* rows at any hour

BlockLengths == {0, 20, 40, 60, 80}
ClassifierForces == {200, 300, 500, 600, 700, 800, 1000, 1100, 1200, 1300}
ClassifierHours == {0, 1, 2, 3, 8, 23}

BlockRow == [sensorId |-> 1, force |-> 200, timestamp |-> 5 * MinutesPerHour,
             event |-> 100]

ForceRows ==
    {[sensorId |-> 1, force |-> f, timestamp |-> 5 * MinutesPerHour, event |-> 100] :
        f \in ClassifierForces}
    \cup {[sensorId |-> 1, force |-> f, timestamp |-> 2 * MinutesPerHour, event |-> 100] :
        f \in {1100, 1300}}

HourRows ==
    {[sensorId |-> 1, force |-> 200, timestamp |-> h * MinutesPerHour, event |-> 100] :
        h \in ClassifierHours}

\* three events of 8, 9 and 11 kg, all in hour 3
ClassifierExample ==
    [i \in 1..3 |->
        [sensorId |-> 1, force |-> <<800, 900, 1100>>[i],
         timestamp |-> 3 * MinutesPerHour + i, event |-> 100]]

ClassifierFrames ==
    {[i \in 1..n |-> BlockRow] \o tail :
        n \in BlockLengths, tail \in UNION {[1..k -> ForceRows] : k \in 0..MaxForceRows}}
    \cup UNION {[1..k -> HourRows] : k \in 0..MaxHourRows}
    \cup {ClassifierExample}

InitClassify ==
    /\ df \in ClassifierFrames
    /\ dashboard = None
    /\ resegmented = None
    /\ generator = None
    /\ report_text = None
    /\ csv_file = None
    /\ exported = <<>>
    /\ force_distribution = None
    /\ current_session_data = <<>>
    /\ current_session_id = NoneId
    /\ session_active = FALSE
    /\ sessions = <<>>
    /\ simulating = FALSE
    /\ simulation_timer = FALSE
    /\ inbox = <<>>
    /\ now = StartMs
    /\ raised = "none"
    /\ last = "__init__"
    /\ was_active = FALSE
    /\ raw_csv = <<"">>
    /\ parsed = None
    /\ received = <<>>
    /\ delivered = <<>>

NextClassify == GenerateReport

SpecClassify == InitClassify /\ [][NextClassify]_vars

(***************************************************************************)
(* generate_bruxism_pdf_report: the dashboard and the text report of one   *)
(* sensor, made from the same rows and placed on the same page.            *)
(***************************************************************************)
PageForces == {400, 600, 800}
PageTimes == {0, 300}

PageRows ==
    {[sensorId |-> 1, force |-> f, timestamp |-> t, event |-> e] :
        f \in PageForces, t \in PageTimes, e \in EventVals}

PageFrames == UNION {[1..k -> PageRows] : k \in 0..MaxRows}

InitPage ==
    /\ df \in PageFrames
    /\ dashboard = None
    /\ resegmented = None
    /\ generator = None
    /\ report_text = None
    /\ csv_file = None
    /\ exported = <<>>
    /\ force_distribution = None
    /\ current_session_data = <<>>
    /\ current_session_id = NoneId
    /\ session_active = FALSE
    /\ sessions = <<>>
    /\ simulating = FALSE
    /\ simulation_timer = FALSE
    /\ inbox = <<>>
    /\ now = StartMs
    /\ raised = "none"
    /\ last = "__init__"
    /\ was_active = FALSE
    /\ raw_csv = <<"">>
    /\ parsed = None
    /\ received = <<>>
    /\ delivered = <<>>

GenerateBruxismPdfReport ==
    /\ dashboard = None /\ generator = None
    /\ \E sid \in SensorIds :
          /\ \E p \in sort_values(SensorRows(df, sid)) :
                dashboard' = generate_dashboard(df, sid, p)
          /\ generator' = BruxismReportGenerator(df, sid)
          /\ report_text' = generate_summary_report(generator', now)
    /\ UNCHANGED <<df, resegmented>>
    /\ UNCHANGED <<acquisitionVars, exportVars, floatVars>>

NextPage == GenerateBruxismPdfReport

SpecPage == InitPage /\ [][NextPage]_vars

(***************************************************************************)
(* Floating point.  A positive float is its mantissa, MantissaBits bits    *)
(* with the most significant first and a leading 1, and the exponent of    *)
(* the last bit; 0.0 has the empty mantissa.  Every operation rounds the   *)
(* exact result to the nearest float, ties to even.                        *)
(***************************************************************************)
MantissaBits == 53

Float(bits, exp) == [bits |-> bits, exp |-> exp]
FloatZero == Float(<<>>, 0)

\* the bits of a natural number, plus one
Zeros(n) == [i \in 1..n |-> 0]
PadTo(bits, n) == Zeros(n - Len(bits)) \o bits

Increment(bits) ==
    LET n == Len(bits)
        zeros == {i \in 1..n : bits[i] = 0}
    IN  IF zeros = {} THEN <<1>> \o Zeros(n)
        ELSE LET z == SetMax(zeros)
             IN  [i \in 1..n |-> IF i < z THEN bits[i] ELSE IF i = z THEN 1 ELSE 0]

\* the carry into position i of the sum of two bit sequences of one length:
\* some lower position has both bits set and every position between has one
CarryInto(a, b, i) ==
    IF \E j \in (i + 1)..Len(a) :
          /\ a[j] = 1 /\ b[j] = 1
          /\ \A k \in (i + 1)..(j - 1) : a[k] + b[k] = 1
    THEN 1 ELSE 0

\* the sum of two naturals given by bit sequences of one length
AddCarry(a, b) ==
    LET sum == [i \in 1..Len(a) |-> (a[i] + b[i] + CarryInto(a, b, i)) % 2]
    IN  IF CarryInto(a, b, 0) = 1 THEN <<1>> \o sum ELSE sum

AddBits(a, b) ==
    LET n == IF Len(a) > Len(b) THEN Len(a) ELSE Len(b)
    IN  AddCarry(PadTo(a, n), PadTo(b, n))

\* a > b for naturals given by bit sequences without leading zeros
GreaterBits(a, b) ==
    \/ Len(a) > Len(b)
    \/ /\ Len(a) = Len(b)
       /\ \E i \in 1..Len(a) :
             a[i] > b[i] /\ \A j \in 1..(i - 1) : a[j] = b[j]

\* round bits * 2^exp (+ something below the last bit when more) to a float
RoundToFloat(bits, exp, more) ==
    IF Len(bits) <= MantissaBits
    THEN Float(bits \o Zeros(MantissaBits - Len(bits)),
               exp - (MantissaBits - Len(bits)))
    ELSE LET kept == SubSeq(bits, 1, MantissaBits)
             dropped == SubSeq(bits, MantissaBits + 1, Len(bits))
             sticky == more \/ \E i \in 2..Len(dropped) : dropped[i] = 1
             up == dropped[1] = 1 /\ (sticky \/ kept[MantissaBits] = 1)
             rounded == IF up THEN Increment(kept) ELSE kept
         IN  IF Len(rounded) > MantissaBits
             THEN Float(SubSeq(rounded, 1, MantissaBits), exp + Len(dropped) + 1)
             ELSE Float(rounded, exp + Len(dropped))

\* k bits of r / n, for r < 2 n, and what is left of r after them
RECURSIVE DivBits(_, _, _)
DivBits(r, n, k) ==
    IF k = 0 THEN <<>>
    ELSE LET d == IF r >= n THEN 1 ELSE 0
         IN  <<d>> \o DivBits(2 * (r - d * n), n, k - 1)

RECURSIVE DivRest(_, _, _)
DivRest(r, n, k) ==
    IF k = 0 THEN r
    ELSE DivRest(2 * (r - (IF r >= n THEN n ELSE 0)), n, k - 1)

\* the doublings that bring a up to n
RECURSIVE Doublings(_, _)
Doublings(a, n) == IF a >= n THEN 0 ELSE 1 + Doublings(2 * a, n)

RECURSIVE TwoTo(_)
TwoTo(k) == IF k = 0 THEN 1 ELSE 2 * TwoTo(k - 1)

\* a / n in floating point, for integers 0 <= a <= n, n > 0
FloatDivide(a, n) ==
    IF a = 0 THEN FloatZero
    ELSE LET t == Doublings(a, n)
             r == a * TwoTo(t)
         IN  RoundToFloat(DivBits(r, n, MantissaBits + 1), 0 - t - MantissaBits,
                          DivRest(r, n, MantissaBits + 1) # 0)

\* x * 100 in floating point: 100 = 64 + 32 + 4
FloatTimes100(x) ==
    IF x = FloatZero THEN FloatZero
    ELSE RoundToFloat(AddBits(x.bits \o Zeros(6),
                              AddBits(x.bits \o Zeros(5), x.bits \o Zeros(2))),
                      x.exp, FALSE)

\* x + y in floating point
FloatAdd(x, y) ==
    IF x = FloatZero THEN y
    ELSE IF y = FloatZero THEN x
    ELSE LET e == IF x.exp < y.exp THEN x.exp ELSE y.exp
         IN  RoundToFloat(AddBits(x.bits \o Zeros(x.exp - e),
                                  y.bits \o Zeros(y.exp - e)), e, FALSE)

\* x > 100, for a float below 128 (100 is 1100100 in binary)
FloatAbove100(x) ==
    /\ x # FloatZero
    /\ x.exp = 7 - MantissaBits
    /\ GreaterBits(x.bits, <<1, 1, 0, 0, 1, 0, 0>> \o Zeros(MantissaBits - 7))

\* len(...) / self.total_events * 100
FloatPercent(count, total_events) == FloatTimes100(FloatDivide(count, total_events))

(***************************************************************************)
(* calculate_parameters with the force distribution in floating point, on  *)
(* frames of low forces followed by high forces, and on frames of events   *)
(* at a few hours.                                                         *)
(***************************************************************************)
MaxLowRows == 3     \* rows below 5 kg
MaxHighRows == 10   \* rows of 7 kg or more

PercentHours == {1, 2, 3}

PercentRow(f, h) ==
    [sensorId |-> 1, force |-> f, timestamp |-> h * MinutesPerHour, event |-> 100]

PercentFrames ==
    {[i \in 1..(a + b) |-> IF i <= a THEN PercentRow(400, 2) ELSE PercentRow(800, 3)] :
        a \in 0..MaxLowRows, b \in 0..MaxHighRows}
    \cup UNION {[1..k -> {PercentRow(600, h) : h \in PercentHours}] :
                k \in 0..MaxHourRows}

InitPercent ==
    /\ df \in PercentFrames
    /\ dashboard = None
    /\ resegmented = None
    /\ generator = None
    /\ report_text = None
    /\ csv_file = None
    /\ exported = <<>>
    /\ force_distribution = None
    /\ current_session_data = <<>>
    /\ current_session_id = NoneId
    /\ session_active = FALSE
    /\ sessions = <<>>
    /\ simulating = FALSE
    /\ simulation_timer = FALSE
    /\ inbox = <<>>
    /\ now = StartMs
    /\ raised = "none"
    /\ last = "__init__"
    /\ was_active = FALSE
    /\ raw_csv = <<"">>
    /\ parsed = None
    /\ received = <<>>
    /\ delivered = <<>>

CalculateParameters ==
    /\ generator = None
    /\ \E sid \in SensorIds :
          /\ generator' = BruxismReportGenerator(df, sid)
          /\ force_distribution' =
                IF generator'.total_events = 0
                THEN [low_force_pct |-> FloatZero, high_force_pct |-> FloatZero]
                ELSE [low_force_pct |->
                         FloatPercent(ForcesBelow(generator'.events, 500),
                                      generator'.total_events),
                      high_force_pct |->
                         FloatPercent(ForcesFrom(generator'.events, 700),
                                      generator'.total_events)]
    /\ UNCHANGED <<df, dashboard, resegmented, report_text>>
    /\ UNCHANGED <<acquisitionVars, exportVars>>

NextPercent == CalculateParameters

SpecPercent == InitPercent /\ [][NextPercent]_vars

(***************************************************************************)
(* Export of the live buffer or of a saved session, and import of the file *)
(* that was written.                                                       *)
(***************************************************************************)
ExportCurrentCsv ==
    /\ IF current_session_data = <<>>
       THEN /\ raised' = "ValueError"
            /\ UNCHANGED exportVars
       ELSE /\ raised' = "none"
            /\ csv_file' = export_csv(current_session_data, {"date"})
            /\ exported' = current_session_data
    /\ Called("export_current_csv")
    /\ UNCHANGED <<current_session_data, current_session_id, session_active,
                   sessions, simulating, simulation_timer, inbox, now, raw_csv,
                   parsed, received, delivered>>
    /\ UNCHANGED <<reportVars, floatVars>>

ExportSessionCsv ==
    /\ \E session_id \in 1..MaxSessions :
          LET data == get_session_data(sessions, session_id)
          IN  IF data = <<>>
              THEN /\ raised' = "ValueError"
                   /\ UNCHANGED exportVars
              ELSE /\ raised' = "none"
                   /\ csv_file' = export_csv(data, StrKeys(sessions, session_id))
                   /\ exported' = data
    /\ Called("export_session_csv")
    /\ UNCHANGED <<current_session_data, current_session_id, session_active,
                   sessions, simulating, simulation_timer, inbox, now, raw_csv,
                   parsed, received, delivered>>
    /\ UNCHANGED <<reportVars, floatVars>>

ImportCsvAsDemoSession ==
    /\ csv_file # None
    /\ RoomForRow
    /\ SetStore(import_csv_as_demo_session(Store, csv_file, now))
    /\ Called("import_csv_as_demo_session")
    /\ UNCHANGED <<simulating, simulation_timer, inbox, now, raw_csv, parsed,
                   received, delivered>>
    /\ UNCHANGED <<reportVars, exportVars, floatVars>>

NextExport ==
    \/ AddForceValue
    \/ SaveSession
    \/ ExportCurrentCsv
    \/ ExportSessionCsv
    \/ ImportCsvAsDemoSession

SpecExport == Init /\ [][NextExport]_vars

(***************************************************************************)
(* The summary text over time: generate_summary_report called again on the *)
(* same generator, while the wall clock moves on.                          *)
(***************************************************************************)
SummaryFrames == UNION {[1..k -> ForceRows] : k \in 0..MaxForceRows}

InitSummary ==
    /\ df \in SummaryFrames
    /\ dashboard = None
    /\ resegmented = None
    /\ generator = None
    /\ report_text = None
    /\ csv_file = None
    /\ exported = <<>>
    /\ force_distribution = None
    /\ current_session_data = <<>>
    /\ current_session_id = NoneId
    /\ session_active = FALSE
    /\ sessions = <<>>
    /\ simulating = FALSE
    /\ simulation_timer = FALSE
    /\ inbox = <<>>
    /\ now = StartMs
    /\ raised = "none"
    /\ last = "__init__"
    /\ was_active = FALSE
    /\ raw_csv = <<"">>
    /\ parsed = None
    /\ received = <<>>
    /\ delivered = <<>>

\* a minute passes on the wall clock
MinutePasses ==
    /\ now < StartMs + MaxTicks * MsPerMinute
    /\ now' = now + MsPerMinute
    /\ UNCHANGED <<current_session_data, current_session_id, session_active,
                   sessions, simulating, simulation_timer, inbox, raised, last,
                   was_active, raw_csv, parsed, received, delivered>>
    /\ UNCHANGED <<reportVars, exportVars, floatVars>>

GenerateSummaryReport ==
    /\ generator # None
    /\ report_text' = generate_summary_report(generator, now)
    /\ UNCHANGED <<df, dashboard, resegmented, generator>>
    /\ UNCHANGED <<acquisitionVars, exportVars, floatVars>>

NextSummary ==
    \/ GenerateReport
    \/ GenerateSummaryReport
    \/ MinutePasses

SpecSummary == InitSummary /\ [][NextSummary]_vars

(***************************************************************************)
(* Properties of the session lifecycle (checked under Spec).               *)
(***************************************************************************)
IsPrefix(a, b) ==
    Len(a) <= Len(b) /\ SubSeq(b, 1, Len(a)) = a

ExtendsByOne(old, new) ==
    Len(new) = Len(old) + 1 /\ IsPrefix(old, new)

\* C1: stopping an active session that holds at least one record persists
\* exactly one new row with those records and leaves the buffer empty and the
\* store inactive.
C1_StopPersistsSession ==
    [][(last' = "stop_session" /\ session_active
            /\ current_session_data # <<>>)
        => /\ Len(sessions') = Len(sessions) + 1
           /\ IsPrefix(sessions, sessions')
           /\ sessions'[Len(sessions')].data = current_session_data
           /\ current_session_data' = <<>>
           /\ ~session_active']_vars

\* C2: after every call to end_session, whatever save and the prior state, the
\* live buffer is empty and session_active is False.
C2_EndSessionAlwaysClears ==
    [][last' \in {"end_session(save=True)", "end_session(save=False)"}
        => current_session_data' = <<>> /\ ~session_active']_vars

\* C3: persisting a session whose buffer holds zero records (save_session, or
\* end_session(save=True) on an active session) signals an error to the caller
\* and inserts no row.
C3_EmptySessionError ==
    [][((last' = "save_session"
            \/ (last' = "end_session(save=True)" /\ session_active))
        /\ current_session_data = <<>>)
        => raised' = "ValueError" /\ sessions' = sessions]_vars

C3_Witness ==
    /\ last = "end_session(save=True)"
    /\ was_active
    /\ raised = "ValueError"
    /\ current_session_data = <<>>

\* C4, as claimed: while a session is active, every change to the live buffer
\* (outside the calls that start a session) is an extension by exactly one
\* record at its end.
C4_AppendOnlyWhileActive ==
    [][(session_active /\ session_active'
            /\ last' \notin {"start_real_session", "start_simulation_session",
                             "load_demo_session"}
            /\ current_session_data' # current_session_data)
        => ExtendsByOne(current_session_data, current_session_data')]_vars

\* C4, amended: while a session is active, a call leaves the live buffer
\* unchanged, extended by exactly one record at its end, emptied
\* (start_new_session, clear_current_session, save_session), emptied and then
\* given one record (clear_data while simulating), or replaced by the stored
\* demo records (load_demo_session); records are never reordered or edited.
C4_AppendOrReset ==
    [][(session_active /\ session_active')
        => \/ current_session_data' = current_session_data
           \/ ExtendsByOne(current_session_data, current_session_data')
           \/ current_session_data' = <<>>
           \/ (last' = "clear_data" /\ simulating
                 /\ Len(current_session_data') = 1)
           \/ (last' = "load_demo_session"
                 /\ current_session_data' =
                       get_session_data(sessions, _get_demo_session_id(sessions)))
       ]_vars

C4_Witness ==
    /\ last \in {"_refresh", "update_plot"}
    /\ was_active
    /\ session_active
    /\ simulating
    /\ Len(current_session_data) >= 2
    /\ current_session_data[1] # current_session_data[2]

\* C5: appending a record while no session is active (add_record from the
\* simulator, or add_force_value) auto-starts a session: session_active is
\* True, a session token is assigned, and the appended record is the last
\* element of the buffer.
C5_AppendAutoStarts ==
    [][(~session_active
            /\ \/ last' = "add_force_value"
               \/ (last' \in {"_refresh", "update_plot"} /\ simulating))
        => /\ session_active'
           /\ current_session_id' # NoneId
           /\ current_session_id' = NowSeconds(now)
           /\ current_session_data' # <<>>
           /\ LET r == current_session_data'[Len(current_session_data')]
              IN  /\ r.date = UtcNow(now)
                  /\ IF last' = "add_force_value"
                     THEN /\ current_session_data' = <<r>>
                          /\ r.timestamp = NowSeconds(now)
                          /\ r.sensorId = 1 /\ r.event = 0
                          /\ r.force \in ForceVals
                     ELSE /\ ExtendsByOne(current_session_data,
                                          current_session_data')
                          /\ r.timestamp = now
                          /\ <<r.force, r.event>> \in SimLevels
       ]_vars

C5_Witness ==
    /\ last = "_refresh"
    /\ simulating
    /\ ~was_active
    /\ session_active
    /\ current_session_id # NoneId
    /\ current_session_data # <<>>

(***************************************************************************)
(* Properties of the acquisition path (checked under SpecBle).             *)
(***************************************************************************)
\* the two records a decoded frame stands for, from its floats and decode time
FrameRecords(entry) ==
    IF entry.data.n # FrameBytes THEN <<>>
    ELSE << [sensorId |-> 1, force |-> entry.data.f[3], timestamp |-> entry.at,
             date |-> LocalOfMillis(entry.at), event |-> entry.data.f[2]],
            [sensorId |-> 2, force |-> entry.data.f[4], timestamp |-> entry.at,
             date |-> LocalOfMillis(entry.at), event |-> entry.data.f[5]] >>

RECURSIVE Flatten(_)
Flatten(ss) ==
    IF ss = <<>> THEN <<>> ELSE Head(ss) \o Flatten(Tail(ss))

ExpectedRecords == Flatten([i \in 1..Len(received) |-> FrameRecords(received[i])])

\* what the queued lines will append: nothing for a line parse rejects
PendingRecords ==
    Flatten([i \in 1..Len(inbox) |->
                IF IsDict(parse(inbox[i])) THEN <<parse(inbox[i])>> ELSE <<>>])

\* C6: each valid 20-byte frame results in exactly two records appended to the
\* store, the sensorId 1 record before the sensorId 2 record, both with the
\* frame's timestamp: the records appended so far, followed by those of the
\* lines still queued, are the frames' records in order.
C6_FrameYieldsTwoRecords ==
    delivered \o PendingRecords = ExpectedRecords

C6_Witness ==
    /\ inbox = <<>>
    /\ \E i \in 1..Len(received) : received[i].data.n = FrameBytes
    /\ Len(delivered) >= 2
    /\ delivered[1].sensorId = 1
    /\ delivered[2].sensorId = 2
    /\ delivered[1].timestamp = delivered[2].timestamp
    /\ delivered[1].timestamp < now

\* C7: a payload whose length is not 20 bytes queues no line and leaves the
\* session buffer unchanged, and a valid frame that comes after one still
\* queues its two lines, which on_ble_data appends as two records.
C7_MalformedFrameDropped ==
    [][(last' = "_notification_handler" /\ Len(received') = Len(received) + 1)
        => LET entry == received'[Len(received')]
           IN  /\ entry.data.n # FrameBytes
                    => /\ inbox' = inbox
                       /\ current_session_data' = current_session_data
                       /\ delivered' = delivered
                       /\ raised' = "none"
               /\ (entry.data.n = FrameBytes
                     /\ \E i \in 1..Len(received) : received[i].data.n # FrameBytes)
                    => /\ Len(inbox') = Len(inbox) + 2
                       /\ Len(PendingRecords') = Len(PendingRecords) + 2
       ]_vars

C7_Witness ==
    /\ Len(received) >= 2
    /\ received[1].data.n # FrameBytes
    /\ received[2].data.n = FrameBytes
    /\ inbox = <<>>
    /\ Len(delivered) = 2
    /\ Len(current_session_data) = 2

(***************************************************************************)
(* Properties of the parser (checked under SpecParse).                     *)
(***************************************************************************)
\* a field that is no number at all
NonNumeric(field) == ~IsFloatText(field)

\* non-numeric field among the four of the record format, too few fields, or empty
Malformed(line) ==
    \/ IsBlank(line)
    \/ Len(line) < 4
    \/ \E i \in 1..4 : NonNumeric(line[i])

C9_ThreeFieldsDefaultEvent ==
    (/\ last = "parse"
     /\ Len(raw_csv) = 3
     /\ IsIntText(raw_csv[1]) /\ IsFloatText(raw_csv[2]) /\ IsIntText(raw_csv[3]))
    => (IsDict(parsed) /\ parsed.event = 0)

\* C10: every record in the live buffer, after parsed lines were appended
\* through parse and add_record, has sensorId in {1, 2} and event in {0.0, 1.0}.
C10_RecordsWellTyped ==
    \A i \in 1..Len(current_session_data) :
        /\ current_session_data[i].sensorId \in SensorIds
        /\ current_session_data[i].event \in EventVals

\* C11: within one session and for each sensorId, the timestamps of the buffered
\* records are non-decreasing in append order, whichever producer appended them
\* (the simulator through add_record, or add_force_value), all in milliseconds.
C11_TimestampsNonDecreasing ==
    \A i, j \in 1..Len(current_session_data) :
        (i < j /\ current_session_data[i].sensorId = current_session_data[j].sensorId)
        => current_session_data[i].timestamp <= current_session_data[j].timestamp

(***************************************************************************)
(* Episode segmentation (SpecReport).                                      *)
(***************************************************************************)
\* positions in df of the rows of one sensor
SensorPositions(sid) == {i \in 1..Len(df) : df[i].sensorId = sid}

\* the records of one sensor that carry event == 1.0, in sequence order
FlaggedRecords(sid) ==
    SelectSeq(df, LAMBDA r : r.sensorId = sid /\ r.event = 100)

\* C12 as stated: the recording (all rows of the session) is overnight exactly
\* when its latest timestamp is at least 5 hours after its earliest, and in
\* overnight mode the episodes are the records with event == 1.0, one each.
C12_OvernightByRecordingSpan ==
    dashboard # None =>
        /\ dashboard.is_overnight_data <=>
              \E i, j \in 1..Len(df) : df[j].timestamp - df[i].timestamp >= 300
        /\ dashboard.is_overnight_data =>
              dashboard.events = FlaggedRecords(dashboard.sensor_id)

\* C12 amended: the rows of the charted sensor are overnight exactly when the
\* latest of their timestamps is at least 5 hours (300 minutes) after the
\* earliest, a span of exactly 5 hours included; in overnight mode the episodes
\* are exactly that sensor's records with event == 1.0, one each, in order.
C12_OvernightBySensorSpan ==
    dashboard # None =>
        /\ dashboard.is_overnight_data <=>
              \E i, j \in SensorPositions(dashboard.sensor_id) :
                  df[j].timestamp - df[i].timestamp >= 300
        /\ dashboard.is_overnight_data =>
              dashboard.events = FlaggedRecords(dashboard.sensor_id)

C12_Witness ==
    /\ dashboard # None
    /\ dashboard.is_overnight_data
    /\ \A i, j \in SensorPositions(dashboard.sensor_id) :
          df[j].timestamp - df[i].timestamp <= 300
    /\ Len(dashboard.events) = 2
    /\ \E i \in SensorPositions(dashboard.sensor_id) : df[i].event = 0

\* the maximal runs of event-flagged rows from position i on: the timestamp of
\* the first row of each run and the largest force in it
RECURSIVE MaximalRuns(_, _)
MaximalRuns(rows, i) ==
    IF i > Len(rows) THEN <<>>
    ELSE IF rows[i].event # 100 THEN MaximalRuns(rows, i + 1)
    ELSE LET e == SetMax({j \in i..Len(rows) : \A m \in i..j : rows[m].event = 100})
         IN  << [timestamp |-> rows[i].timestamp,
                 force |-> SetMax({rows[m].force : m \in i..e}),
                 event |-> 100] >>
             \o MaximalRuns(rows, e + 1)

\* C13: in short/demo mode the episodes are exactly the maximal runs of
\* event-flagged records adjacent by original index, each with the timestamp of
\* its first member and the maximum force of its members.
C13_EpisodesAreMaximalRuns ==
    (dashboard # None /\ ~dashboard.is_overnight_data) =>
        dashboard.events =
            MaximalRuns(SelectSeq(df, LAMBDA r : r.sensorId = dashboard.sensor_id), 1)

\* C14 as stated: segmenting the episodes again, as records with every event
\* flag 1.0, yields the same number of episodes.
C14_ResegmentKeepsCount ==
    resegmented # None => resegmented.total_events = dashboard.total_events

\* the episodes' timestamps, and whether they strictly increase
EpisodeTimes == [i \in 1..Len(dashboard.events) |-> dashboard.events[i].timestamp]

EpisodesSpanOvernight ==
    \E i, j \in 1..Len(EpisodeTimes) : EpisodeTimes[j] - EpisodeTimes[i] >= 300

EpisodesStrictlyIncrease ==
    \A i \in 1..(Len(EpisodeTimes) - 1) : EpisodeTimes[i] < EpisodeTimes[i + 1]

\* C14 amended: segmenting the episodes again never yields more episodes; it
\* yields the same number when the episodes themselves span at least 5 hours
\* (overnight policy); when they span less they are index-adjacent records under
\* the short/demo policy and, with strictly increasing timestamps, merge into
\* one episode.
C14_ResegmentMergesShort ==
    resegmented # None =>
        /\ resegmented.total_events <= dashboard.total_events
        /\ EpisodesSpanOvernight =>
              resegmented.total_events = dashboard.total_events
        /\ (~EpisodesSpanOvernight /\ EpisodesStrictlyIncrease
              /\ dashboard.total_events > 0)
              => resegmented.total_events = 1

C14_Witness ==
    /\ resegmented # None
    /\ ~dashboard.is_overnight_data
    /\ dashboard.total_events = 2
    /\ EpisodesStrictlyIncrease
    /\ resegmented.total_events = 1

\* C15: the classifier's totalEvents for a sensor equals the number of episodes
\* the segmenter produces for that sensor's records.
C15_TotalEventsIsEpisodeCount ==
    generator # None =>
        \A p \in sort_values(SensorRows(df, generator.sensor_id)) :
            generator.total_events =
                generate_dashboard(df, generator.sensor_id, p).total_events

(***************************************************************************)
(* Classification (SpecClassify, SpecReport).                              *)
(***************************************************************************)
\* the aggregates of the events a generator was built from
TotalEvents == Len(generator.events)
ForceSum == SeqSum(Forces(generator.events))
MaxForce == SetMax({generator.events[i].force : i \in 1..TotalEvents})
Classified == generator # None /\ TotalEvents > 0

\* C16: for every non-empty episode set the severity is the first match of
\* maxForce>12 or meanForce>8 or totalEvents>80: CRITICAL; maxForce>10 or
\* meanForce>7 or totalEvents>60: SEVERE; maxForce>7 or meanForce>5 or
\* totalEvents>40: MODERATE; maxForce>5 or meanForce>3 or totalEvents>20: MILD;
\* else NORMAL, every comparison strict (meanForce > k is ForceSum > k * n).
C16_SeverityCascade ==
    Classified =>
        generator.severity_level =
            IF MaxForce > 1200 \/ ForceSum > 800 * TotalEvents \/ TotalEvents > 80
            THEN "CRITICAL"
            ELSE IF MaxForce > 1000 \/ ForceSum > 700 * TotalEvents \/ TotalEvents > 60
            THEN "SEVERE"
            ELSE IF MaxForce > 700 \/ ForceSum > 500 * TotalEvents \/ TotalEvents > 40
            THEN "MODERATE"
            ELSE IF MaxForce > 500 \/ ForceSum > 300 * TotalEvents \/ TotalEvents > 20
            THEN "MILD"
            ELSE "NORMAL"

C16_Witness ==
    /\ Classified
    /\ MaxForce = 1200
    /\ TotalEvents = 21
    /\ generator.severity_level = "SEVERE"

\* C17: for every non-empty episode set the temporal pattern is REM_DOMINANT
\* when remConcentration>60; otherwise DISTRIBUTED when
\* temporalConcentration<30; otherwise EARLY_NIGHT when peakHour<=2 (peak hours
\* 0, 1 and 2); otherwise LATE_NIGHT.
C17_TemporalCascade ==
    Classified =>
        generator.temporal_pattern =
            IF generator.rem_concentration.num > 60 * generator.rem_concentration.den
            THEN "REM_DOMINANT"
            ELSE IF generator.temporal_concentration.num
                       < 30 * generator.temporal_concentration.den
            THEN "DISTRIBUTED"
            ELSE IF generator.peak_hour <= 2 THEN "EARLY_NIGHT"
            ELSE "LATE_NIGHT"

\* C18: for every non-empty episode set the risk level is URGENT when
\* maxForce>12; otherwise HIGH when severity is SEVERE or CRITICAL and
\* remConcentration>50; otherwise MODERATE when severity is MODERATE;
\* otherwise LOW.
C18_RiskCascade ==
    Classified =>
        generator.risk_level =
            IF MaxForce > 1200 THEN "URGENT"
            ELSE IF /\ generator.severity_level \in {"SEVERE", "CRITICAL"}
                    /\ generator.rem_concentration.num
                          > 50 * generator.rem_concentration.den
            THEN "HIGH"
            ELSE IF generator.severity_level = "MODERATE" THEN "MODERATE"
            ELSE "LOW"

C18_Witness ==
    /\ Classified
    /\ MaxForce > 1200
    /\ generator.severity_level = "CRITICAL"
    /\ generator.rem_concentration.num > 50 * generator.rem_concentration.den
    /\ generator.risk_level = "URGENT"

\* forceCV squared: stdForce / meanForce, 0 when meanForce is 0; the standard
\* deviation of a single force is 0
ForceCvSquared ==
    IF TotalEvents = 1 THEN Zero ELSE CvSquared(generator.events)

\* C19: for every non-empty episode set the force pattern is CONSISTENT when
\* forceCV<0.2; otherwise MODERATE_VARIABILITY when forceCV<0.4; otherwise
\* BIMODAL when lowForcePct>25 and highForcePct>25; otherwise HIGHLY_VARIABLE.
C19_ForceCascade ==
    Classified =>
        generator.force_pattern =
            IF 25 * ForceCvSquared.num < ForceCvSquared.den THEN "CONSISTENT"
            ELSE IF 25 * ForceCvSquared.num < 4 * ForceCvSquared.den
            THEN "MODERATE_VARIABILITY"
            ELSE IF /\ generator.low_force_pct.num > 25 * generator.low_force_pct.den
                    /\ generator.high_force_pct.num > 25 * generator.high_force_pct.den
            THEN "BIMODAL"
            ELSE "HIGHLY_VARIABLE"

\* C20: with zero episodes for a sensor, classification does not raise and
\* yields severity NORMAL, all counts and aggregates 0, temporal and force
\* pattern NO_EVENTS and risk LOW, and the summary is the fixed no-events text,
\* which reads no peak hour.
C20_NoEventsDefaults ==
    (generator # None /\ TotalEvents = 0) =>
        /\ generator.total_events = 0
        /\ generator.peak_hour_events = 0
        /\ generator.max_force = 0
        /\ \A f \in {"mean_force", "median_force", "force_cv", "low_force_pct",
                     "high_force_pct", "rem_concentration",
                     "temporal_concentration"} :
              generator[f].num = 0 /\ generator[f].den > 0
        /\ generator.peak_hour = NoPeakHour
        /\ generator.severity_level = "NORMAL"
        /\ generator.temporal_pattern = "NO_EVENTS"
        /\ generator.force_pattern = "NO_EVENTS"
        /\ generator.risk_level = "LOW"
        /\ DOMAIN report_text = {"kind", "sensor_name", "fecha"}
        /\ report_text.kind = "No se detectaron eventos de bruxismo"
        /\ report_text.sensor_name =
              (IF generator.sensor_id = 1 THEN "IZQUIERDO" ELSE "DERECHO")

C20_Witness ==
    /\ generator # None
    /\ TotalEvents = 0
    /\ \E i \in 1..Len(df) : df[i].sensorId = generator.sensor_id
    /\ \E i \in 1..Len(df) : df[i].sensorId # generator.sensor_id /\ df[i].event = 100
    /\ report_text # None

\* the events are three, with forces 8, 9 and 11 kg, all in hour 3
IsClassifierExample ==
    /\ generator # None
    /\ Forces(generator.events) = <<800, 900, 1100>>
    /\ \A i \in 1..3 : (generator.events[i].timestamp \div 60) % 24 = 3

\* C21 as stated: three episodes with forces 8, 9 and 11, all in hour 3, are
\* classified severity SEVERE, temporal pattern REM_DOMINANT and risk HIGH.
C21_ExampleIsSevere ==
    IsClassifierExample =>
        /\ generator.severity_level = "SEVERE"
        /\ generator.temporal_pattern = "REM_DOMINANT"
        /\ generator.risk_level = "HIGH"

\* C21 amended: three episodes with forces 8, 9 and 11, all in hour 3, are
\* classified severity CRITICAL (their mean force 28/3 exceeds 8), temporal
\* pattern REM_DOMINANT (remConcentration 100%) and risk HIGH.
C21_ExampleIsCritical ==
    IsClassifierExample =>
        /\ generator.severity_level = "CRITICAL"
        /\ generator.rem_concentration.num = 100 * generator.rem_concentration.den
        /\ generator.temporal_pattern = "REM_DOMINANT"
        /\ generator.risk_level = "HIGH"

C21_Witness ==
    /\ IsClassifierExample
    /\ generator.total_events = 3
    /\ generator.max_force = 1100
    /\ report_text # None

\* C22: the report text is a function of the clinical profile alone: two
\* invocations of generate_summary_report on the same generator return the
\* same text, whenever they run.
C22_TextDependsOnProfileOnly ==
    [][(/\ generator # None /\ generator' = generator
        /\ report_text # None /\ report_text' # None)
       => report_text' = report_text]_vars

\* the records import_csv_as_demo_session stored, in the row it inserted
ImportedRecords == sessions'[Len(sessions')].data

\* C23: exporting records to CSV and importing the file again yields
\* records equal to the originals in sensorId, force, timestamp, date and
\* event, in the same order (the timestamp, which import keeps as the text
\* of the column, is compared with the text the export wrote for it).
C23_ExportImportRoundTrip ==
    [][(last' = "import_csv_as_demo_session" /\ raised' = "none")
       => /\ Len(ImportedRecords) = Len(exported)
          /\ \A i \in 1..Len(exported) :
                /\ ImportedRecords[i].sensorId = exported[i].sensorId
                /\ ImportedRecords[i].force = exported[i].force
                /\ ImportedRecords[i].timestamp = csv_file.lines[i][3]
                /\ ImportedRecords[i].date = exported[i].date
                /\ ImportedRecords[i].event = exported[i].event]_vars

\* C24: a session that begins by auto-start (on_ble_data appends a record
\* while the store is inactive) holds only that record: nothing buffered
\* before the preceding stop, end_session or clear remains in the buffer.
C24_AutoStartBeginsEmpty ==
    [][(last' = "on_ble_data" /\ ~session_active /\ session_active')
       => current_session_data' = <<delivered'[Len(delivered')]>>]_vars

\* C25: after a successful save_session, get_session_data of the returned
\* id yields exactly the records that were in the live buffer before the
\* save, in the same order, the live buffer is empty, and no previously
\* persisted session is changed.
C25_SaveThenGet ==
    [][(last' = "save_session" /\ raised' = "none")
       => /\ Len(sessions') = Len(sessions) + 1
          /\ get_session_data(sessions', sessions'[Len(sessions')].id)
                = current_session_data
          /\ current_session_data' = <<>>
          /\ \A i \in 1..Len(sessions) : sessions'[i] = sessions[i]]_vars

C25_Witness ==
    /\ last = "save_session"
    /\ raised = "none"
    /\ current_session_data = <<>>
    /\ Len(sessions) = 2
    /\ IsDemo(sessions[1])
    /\ Len(sessions[2].data) = 2
    /\ sessions[2].data[1].force # sessions[2].data[2].force

\* the dashboard and the report of one sensor, made from the same rows
OnSamePage ==
    /\ dashboard # None
    /\ generator # None
    /\ dashboard.sensor_id = generator.sensor_id

\* C26: for the same records and sensor the severity on the dashboard agrees
\* with the severity of the text report: SEVERO iff SEVERE or CRITICAL,
\* MODERADO iff MODERATE, LEVE iff MILD, NORMAL iff NORMAL.
C26_SeveritiesAgree ==
    OnSamePage
    => /\ dashboard.severity_level = "SEVERO"
            <=> generator.severity_level \in {"SEVERE", "CRITICAL"}
       /\ dashboard.severity_level = "MODERADO"
            <=> generator.severity_level = "MODERATE"
       /\ dashboard.severity_level = "LEVE" <=> generator.severity_level = "MILD"
       /\ dashboard.severity_level = "NORMAL"
            <=> generator.severity_level = "NORMAL"

\* the rows of the dashboard's sensor, and the episodes a row belongs to
DashboardRows == SensorRows(df, dashboard.sensor_id)
EpisodesOf(i) ==
    {k \in 1..Len(dashboard.episode_group) : i \in dashboard.episode_group[k]}
FlaggedCount == Cardinality({i \in 1..Len(DashboardRows) : DashboardRows[i].event = 100})

\* C27: in short/demo segmentation the episodes partition the event-flagged
\* records of the sensor: every record with event == 1.0 belongs to exactly
\* one episode, no other record belongs to any, and the episode count is
\* between 1 and the number of event records when there is one, 0 otherwise.
C27_EpisodesPartitionEvents ==
    (dashboard # None /\ ~dashboard.is_overnight_data) =>
        /\ Len(dashboard.episode_group) = dashboard.total_events
        /\ \A k \in 1..dashboard.total_events :
              dashboard.episode_group[k] \subseteq 1..Len(DashboardRows)
        /\ \A i \in 1..Len(DashboardRows) :
              IF DashboardRows[i].event = 100
              THEN Cardinality(EpisodesOf(i)) = 1
              ELSE EpisodesOf(i) = {}
        /\ IF FlaggedCount > 0
           THEN dashboard.total_events >= 1 /\ dashboard.total_events <= FlaggedCount
           ELSE dashboard.total_events = 0

C27_Witness ==
    /\ dashboard # None
    /\ ~dashboard.is_overnight_data
    /\ dashboard.total_events = 2
    /\ \E k \in 1..2 : Cardinality(dashboard.episode_group[k]) >= 2
    /\ \E i \in 1..Len(DashboardRows) : DashboardRows[i].event # 100

\* C28: for every non-empty episode set a severity of SEVERE or CRITICAL
\* never comes with risk LOW (the risk is then HIGH or URGENT), so the report
\* never pairs the immediate-splint intervention with the 8-12 week follow-up.
C28_SevereIsNeverLowRisk ==
    Classified =>
        /\ generator.severity_level \in {"SEVERE", "CRITICAL"}
              => generator.risk_level \in {"HIGH", "URGENT"}
        /\ ~(/\ report_text.primary_intervention = "Terapia Inmediata con Ferula Oclusal"
             /\ report_text.followup = "8-12 semanas")

\* every event of the generator has the same force
SameForce ==
    \A i, j \in 1..TotalEvents :
        generator.events[i].force = generator.events[j].force

\* C29: when all episodes of a sensor have the same force, including the
\* case of exactly one episode, forceCV is 0 and the force pattern is
\* CONSISTENT.
C29_SameForceIsConsistent ==
    (Classified /\ SameForce) =>
        /\ generator.force_cv.num = 0
        /\ generator.force_cv.den > 0
        /\ generator.force_pattern = "CONSISTENT"

\* the percentages of a non-empty episode set, with the force distribution
\* as the floats calculate_parameters stored
Distributed == Classified /\ force_distribution # None

RemWithinWindow ==
    /\ 0 <= generator.rem_concentration.num
    /\ generator.rem_concentration.num * generator.temporal_concentration.den
          <= generator.temporal_concentration.num * generator.rem_concentration.den
    /\ generator.temporal_concentration.num
          <= 100 * generator.temporal_concentration.den

RemDominantIsConcentrated ==
    generator.temporal_pattern = "REM_DOMINANT"
        => Above(generator.temporal_concentration, 60)

\* C30 as stated: for every non-empty episode set 0 <= remConcentration <=
\* temporalConcentration <= 100 and lowForcePct + highForcePct <= 100, and
\* REM_DOMINANT is only assigned when temporalConcentration > 60.
C30_PercentagesBounded ==
    Distributed =>
        /\ RemWithinWindow
        /\ ~FloatAbove100(FloatAdd(force_distribution.low_force_pct,
                                   force_distribution.high_force_pct))
        /\ RemDominantIsConcentrated

\* C30 amended: for every non-empty episode set 0 <= remConcentration <=
\* temporalConcentration <= 100; the events below 5 kg and the events of 7 kg
\* or more together are at most totalEvents, and lowForcePct and highForcePct
\* are each at most 100 (their floating-point sum may exceed 100 by rounding);
\* REM_DOMINANT is only assigned when temporalConcentration > 60.
C30_CountsBounded ==
    Distributed =>
        /\ RemWithinWindow
        /\ ForcesBelow(generator.events, 500) + ForcesFrom(generator.events, 700)
              <= generator.total_events
        /\ generator.low_force_pct.num + generator.high_force_pct.num
              <= 100 * generator.total_events
        /\ ~FloatAbove100(force_distribution.low_force_pct)
        /\ ~FloatAbove100(force_distribution.high_force_pct)
        /\ RemDominantIsConcentrated

C30_Witness ==
    /\ Distributed
    /\ generator.total_events = 11
    /\ ForcesBelow(generator.events, 500) = 2
    /\ ForcesFrom(generator.events, 700) = 9
    /\ generator.temporal_pattern = "REM_DOMINANT"
    /\ FloatAbove100(FloatAdd(force_distribution.low_force_pct,
                              force_distribution.high_force_pct))

====
